---------------------------- MODULE Spec2Model ----------------------------
(***************************************************************************)
(* Model of detection/pytorch_detector.py: the PTDetector class and its    *)
(* per-image call generate_detections_one_image.                           *)
(*                                                                         *)
(* Numbers.  Pixel coordinates are integers or exact rationals n/d.  A     *)
(* confidence is an integer count of ConfUnit-ths (90000 is 0.9).  A       *)
(* truncated value (a 'conf' or a 'bbox' component of the output) is an    *)
(* integer count of OutUnit-ths (10^8 is 1.0).                             *)
(*                                                                         *)
(* Floating point.  The code holds boxes and confidences in float tensors  *)
(* and rounds or floors the floats; the model computes the exact values.   *)
(* A float lies within a rounding error of the exact value, and the code's *)
(* result differs from the exact one where that error decides: a tie of    *)
(* round() (12.5 held as 12.500002 rounds to 13), or a floor at a digit    *)
(* boundary (0.08 held as 0.0799999 is emitted as 0.07999).  Which way the *)
(* error goes depends on the precision of the tensors and on the order of  *)
(* the arithmetic; it is an input of the call (env.float, for each         *)
(* candidate the fate of the ties of its four rescaled coordinates and of  *)
(* the floors of its five emitted numbers), limited to what an error of    *)
(* float32 arithmetic can do to the value at hand.                         *)
(***************************************************************************)
EXTENDS Integers, Sequences, FiniteSets, TLC

VARIABLES
    device,                     \* self.device
    model,                      \* self.model
    use_model_native_classes,   \* self.use_model_native_classes
    printed_image_size_warning, \* self.printed_image_size_warning
    call,                       \* the last call of generate_detections_one_image, or NoCall
    log,                        \* observer: one entry per call made so far
    prior                       \* observer: the call a rerun is compared with, or NoPrior

vars == <<device, model, use_model_native_classes, printed_image_size_warning,
          call, log, prior>>

(***************************************************************************)
(* Program constants                                                       *)
(***************************************************************************)
IMAGE_SIZE == 1280
STRIDE == 64
CONF_DIGITS == 3
COORD_DIGITS == 4
FAILURE_INFER == "Failure inference"

\* Units of the fixed-point representations (not program values).
ConfUnit == 10^5
OutDigits == 4 + 4
OutUnit == 10^OutDigits

(***************************************************************************)
(* Arithmetic helpers                                                      *)
(***************************************************************************)
Min2(a, b) == IF a <= b THEN a ELSE b
Max2(a, b) == IF a >= b THEN a ELSE b

\* Python's round() and torch's Tensor.round() of n/d, n >= 0, d > 0:
\* to the nearest integer, a tie going to the even one.
RoundHalfEven(n, d) ==
    LET q == n \div d
        r == n % d
    IN  IF 2 * r < d THEN q
        ELSE IF 2 * r > d THEN q + 1
        ELSE IF q % 2 = 0 THEN q ELSE q + 1

\* The least k >= 0 with n * 10^k >= d, for 0 < n <= d: minus the decimal
\* exponent floor(log10(n/d)).
RECURSIVE NegExponent(_, _)
NegExponent(n, d) == IF n >= d THEN 0 ELSE 1 + NegExponent(10 * n, d)

RECURSIVE GCD(_, _)
GCD(a, b) == IF b = 0 THEN a ELSE GCD(b, a % b)

RECURSIVE IsPowerOfTwo(_)
IsPowerOfTwo(x) == x = 1 \/ (x % 2 = 0 /\ IsPowerOfTwo(x \div 2))

\* n/d (n >= 0, d > 0) is a binary fraction: a float holds it exactly.
Dyadic(n, d) == IsPowerOfTwo(d \div GCD(n, d))

\* Bits of the significand of a float32, the type of the tensors: one
\* float32 operation is off by at most 2^-FloatBits of its result.
FloatBits == 24

\* floor(a * 2^s / b), the multiplication in two steps (a * 2^(s / 2) and
\* the remainder's product with the rest stay below 2^31).
ScaledFloor(a, b, s) ==
    LET hi == 2^(s \div 2)
        lo == 2^(s - s \div 2)
    IN  ((a * hi) \div b) * lo + (((a * hi) % b) * lo) \div b

\* The sequences that take their i-th element from sets[i].
RECURSIVE SeqProduct(_)
SeqProduct(sets) ==
    IF sets = << >> THEN { << >> }
    ELSE { <<x>> \o t : x \in Head(sets), t \in SeqProduct(Tail(sets)) }

\* How the float handed to truncate_float compares with the exact value, by
\* what the floor makes of it:
\*   "exact"       the floor of the exact value;
\*   "below"       the float lies below the last number of `precision`
\*                 digits that is not above the value: the floor is the
\*                 number before it ("below2": the second before it);
\*   "above"       the float has reached the first number of `precision`
\*                 digits above the value ("above2": the second);
\*   "below_log"   the value is a power of ten and the float lies below it
\*                 by so little that math.log10 returns the logarithm of the
\*                 value itself.
Roundings == { "exact", "below", "below2", "above", "above2", "below_log" }

StepOf(rounding) ==
    CASE rounding = "below"  -> -1
      [] rounding = "below2" -> -2
      [] rounding = "above"  -> 1
      [] rounding = "above2" -> 2
      [] OTHER -> 0

\* The number of `precision` digits that lies s numbers after m * 10^-digs
\* (before it, s < 0), in OutUnit-ths; 10^(precision - 1) <= m < 10^precision.
\* Below a power of ten the numbers are ten times denser, above it ten times
\* sparser.
Stepped(m, digs, precision, s) ==
    LET g == 10^(OutDigits - digs)
        over == m + s - 10^precision
        under == 10^(precision - 1) - (m + s)
    IN  IF s >= 0
        THEN IF over <= 0 THEN (m + s) * g ELSE (10^precision + 10 * over) * g
        ELSE IF under <= 0 THEN (m + s) * g
             ELSE (10^precision - under) * (g \div 10)

\* ct_utils.truncate_float(x, precision), in OutUnit-ths, for a float x whose
\* exact value is n/d in [0, 1]: 0 when x is close to 0, else
\* floor(x * factor) / factor with factor = 10^(precision - 1 - floor(log10(x))).
\* The floor of a float below 0.08 is 0.07999; below 0.1 it is 0.09999 (the
\* factor is that of 0.0999...) or 0.0999 ("below_log", the factor is that of
\* 0.1).  log10 of a float below 1.0 is negative, never 0.
truncate_float(n, d, precision, rounding) ==
    IF n = 0 THEN 0
    ELSE LET k    == NegExponent(n, d)
             digs == precision - 1 + k
             m    == (n * 10^digs) \div d
         IN  IF rounding = "below_log"
             THEN (m - 1) * 10^(OutDigits - digs)
             ELSE Stepped(m, digs, precision, StepOf(rounding))

\* The error of the float of n/d can bring about the rounding: the float is
\* off by at most 2^-FloatBits * (mag / base) * (n / d), and the value is no
\* further than that from the numbers the rounding has it cross.  A float
\* below a value with no digit past the precision-th is below it by any
\* error.
Feasible(n, d, precision, mag, base, rounding) ==
    LET k    == NegExponent(n, d)
        digs == precision - 1 + k
        m    == (n * 10^digs) \div d
        r    == (n * 10^digs) % d
        g    == 10^(OutDigits - digs)
        s    == StepOf(rounding)
        tenth == 2^FloatBits \div 10
        budget == ((m + 1) * mag) \div base
        cost == IF s < 0
                THEN ScaledFloor(r, d, FloatBits)
                     + (((m * g - Stepped(m, digs, precision, s + 1)) * 10) \div g) * tenth
                ELSE ScaledFloor(d - r, d, FloatBits)
                     + (((Stepped(m, digs, precision, s) - (m + 1) * g) * 10) \div g) * tenth
    IN  CASE rounding = "exact" -> TRUE
          [] rounding = "below_log" -> r = 0 /\ m = 10^(precision - 1) /\ k > 0
          [] OTHER -> cost <= budget

\* A number handed to truncate_float: the exact value n/d, the digits kept,
\* the bound mag / base of its float error and whether the floats compute it
\* exactly.
Site(n, d, precision, mag, base, exact) ==
    [n |-> n, d |-> d, precision |-> precision, mag |-> mag, base |-> base,
     exact |-> exact]

\* The float of the number can meet the rounding.
Admits(site, rounding) ==
    \/ rounding = "exact"
    \/ /\ ~site.exact
       /\ site.n # 0
       /\ Feasible(site.n, site.d, site.precision, site.mag, site.base, rounding)

FeasibleRoundings(site) == { r \in Roundings : Admits(site, r) }

(***************************************************************************)
(* YOLOv5 helpers called by the detector                                   *)
(***************************************************************************)

\* utils.augmentations.letterbox(im, new_shape, stride, auto=True): the shape
\* <<h1, w1>> of the padded, resized image.  shape0 = <<h0, w0>> and
\* new_shape = <<nh, nw>> (an int n stands for <<n, n>>).
letterbox(shape0, new_shape, stride) ==
    LET h0 == shape0[1]
        w0 == shape0[2]
        nh == new_shape[1]
        nw == new_shape[2]
        \* r = min(nh / h0, nw / w0) as rn / rd
        byH == nh * w0 <= nw * h0
        rn == IF byH THEN nh ELSE nw
        rd == IF byH THEN h0 ELSE w0
        unpad_w == RoundHalfEven(w0 * rn, rd)
        unpad_h == RoundHalfEven(h0 * rn, rd)
        dw == (nw - unpad_w) % stride
        dh == (nh - unpad_h) % stride
    IN  <<unpad_h + dh, unpad_w + dw>>

\* Intersection over union of two xyxy boxes exceeds 0.45 (iou_thres).
Area(b) == Max2(0, b[3] - b[1]) * Max2(0, b[4] - b[2])
Overlaps(a, b) ==
    LET iw == Max2(0, Min2(a[3], b[3]) - Max2(a[1], b[1]))
        ih == Max2(0, Min2(a[4], b[4]) - Max2(a[2], b[2]))
        inter == iw * ih
        union == Area(a) + Area(b) - inter
    IN  inter * 100 > 45 * union

\* Insert candidate c into the sequence s sorted by descending confidence.
RECURSIVE InsertDesc(_, _)
InsertDesc(c, s) ==
    IF s = <<>> THEN <<c>>
    ELSE IF c.conf > Head(s).conf THEN <<c>> \o s
    ELSE <<Head(s)>> \o InsertDesc(c, Tail(s))

RECURSIVE SortDesc(_)
SortDesc(s) == IF s = <<>> THEN <<>> ELSE InsertDesc(Head(s), SortDesc(Tail(s)))

\* Greedy suppression over candidates sorted by descending confidence:
\* a candidate is kept unless a kept one of its class overlaps it.
RECURSIVE Suppress(_, _)
Suppress(s, kept) ==
    IF s = <<>> THEN kept
    ELSE LET c == Head(s)
             hit == \E i \in 1..Len(kept) :
                        kept[i].cls = c.cls /\ Overlaps(kept[i].box, c.box)
         IN  Suppress(Tail(s), IF hit THEN kept ELSE Append(kept, c))

\* utils.general.non_max_suppression(prediction, conf_thres): the candidates
\* with confidence above conf_thres, by descending confidence, without those
\* suppressed by a kept candidate of the same class.
non_max_suppression(prediction, conf_thres) ==
    Suppress(SortDesc(SelectSeq(prediction, LAMBDA c : c.conf > conf_thres)), <<>>)

\* scale_coords' gain = min(h1 / h0, w1 / w0) as <<gn, gd>>.
ScaleGain(img1_shape, img0_shape) ==
    IF img1_shape[1] * img0_shape[2] <= img1_shape[2] * img0_shape[1]
    THEN << img1_shape[1], img0_shape[1] >>
    ELSE << img1_shape[2], img0_shape[2] >>

\* Coordinate i of an xyxy box after scale_coords, before .round(): the
\* padding removed, divided by the gain, clipped to the original image; as
\* a numerator over 2 * gn.  (x - pad_x) / gain = (2 gd x - w1 gd + w0 gn) / (2 gn).
ScaledCoord(img1_shape, box, img0_shape, i) ==
    LET gain == ScaleGain(img1_shape, img0_shape)
        axis == IF i % 2 = 1 THEN 2 ELSE 1
        n == 2 * gain[2] * box[i] - img1_shape[axis] * gain[2] + img0_shape[axis] * gain[1]
    IN  Max2(0, Min2(n, img0_shape[axis] * 2 * gain[1]))

\* The fates of a float handed to round(): "even" (it is rounded as the
\* exact value is, a tie to the even integer), "down" and "up" (the float
\* of a tie lies below or above it).
TieBreaks == { "even", "down", "up" }

\* The float of coordinate i can lie on either side of a tie: the gain is
\* not a power of two (dividing by one is exact), and the exact value is no
\* further from the tie than the error of the subtraction and the division,
\* 2^-(FloatBits - 2) of x / gain.
NearTie(img1_shape, box, img0_shape, i) ==
    LET gain == ScaleGain(img1_shape, img0_shape)
        g == GCD(gain[1], gain[2])
        d == 2 * gain[1]
        r == ScaledCoord(img1_shape, box, img0_shape, i) % d
        a == IF 2 * r >= d THEN 2 * r - d ELSE d - 2 * r
    IN  /\ ~(IsPowerOfTwo(gain[1] \div g) /\ IsPowerOfTwo(gain[2] \div g))
        /\ ScaledFloor(a, 2 * d, FloatBits - 2) <= (Max2(box[i], 0) * gain[2]) \div gain[1]

TieOptions(img1_shape, box, img0_shape, i) ==
    IF NearTie(img1_shape, box, img0_shape, i) THEN { "down", "up" } ELSE { "even" }

\* utils.general.scale_coords(img1_shape, coords, img0_shape).round() for one
\* xyxy box: undo the letterbox padding and gain, clip to the original image,
\* round to integer pixels; ties[i] is the fate of the float of coordinate i.
scale_coords(img1_shape, box, img0_shape, ties) ==
    [i \in 1..4 |->
        LET n == ScaledCoord(img1_shape, box, img0_shape, i)
            d == 2 * ScaleGain(img1_shape, img0_shape)[1]
        IN  IF ties[i] # "even" /\ NearTie(img1_shape, box, img0_shape, i)
            THEN IF ties[i] = "down" THEN n \div d ELSE n \div d + 1
            ELSE RoundHalfEven(n, d)]


\* utils.general.xyxy2xywh for one box, in half pixels: <<2 xc, 2 yc, 2 w, 2 h>>
\* with xc = (x1 + x2) / 2 and w = x2 - x1.
xyxy2xywh(b) == << b[1] + b[3], b[2] + b[4], 2 * (b[3] - b[1]), 2 * (b[4] - b[2]) >>

(***************************************************************************)
(* ct_utils and the standard library                                       *)
(***************************************************************************)

\* ct_utils.convert_yolo_to_xywh: <<xc, yc, w, h>> to <<x_min, y_min, w, h>>
\* with x_min = xc - w / 2 (all four in the half units of its argument).
convert_yolo_to_xywh(y) == << y[1] - y[3] \div 2, y[2] - y[4] \div 2, y[3], y[4] >>

\* ct_utils.truncate_float_array(xs, precision) for xs[i] = nums[i] / dens[i].
truncate_float_array(nums, dens, precision, roundings) ==
    [i \in 1..Len(nums) |-> truncate_float(nums[i], dens[i], precision, roundings[i])]

\* traceback.print_exc(limit): what it raises ("none": it returns).  A limit
\* that is neither None nor a number reaches the comparison limit >= 0 of
\* StackSummary.extract, which raises TypeError.
traceback_print_exc(limit) == IF limit = "None" THEN "none" ELSE "TypeError"

(***************************************************************************)
(* PTDetector.__init__                                                     *)
(***************************************************************************)
PTDetector_init(model_path, force_cpu, cuda_available, mps_available, native) ==
    LET dev == IF force_cpu THEN "cpu"
               ELSE IF mps_available THEN "mps"
               ELSE IF cuda_available THEN "cuda:0"
               ELSE "cpu"
    IN  [device |-> dev,
         model |-> [path |-> model_path, map_location |-> dev],
         printed_image_size_warning |-> FALSE,
         use_model_native_classes |-> native]

(***************************************************************************)
(* PTDetector.generate_detections_one_image, stage by stage.  The frame c  *)
(* holds the call's locals; c.exc is the exception raised inside the try   *)
(* block so far ("none": none), after which no later stage runs.           *)
(***************************************************************************)

\* Lines 88-92: the locals before the try block.
Frame0(image_id, flag) ==
    [result |-> [file |-> image_id], detections |-> <<>>, max_conf |-> 0,
     exc |-> "none", stages |-> <<>>, warned |-> FALSE, flag |-> flag,
     target_size |-> <<>>, img_shape |-> <<>>, img_device |-> "none",
     nms_device |-> "none", pred |-> <<>>, det |-> <<>>]

Raise(c, stage, e) == [c EXCEPT !.exc = e, !.stages = Append(@, stage)]
Ran(c, stage) == [c EXCEPT !.stages = Append(@, stage)]

\* Line 96: np.asarray(img_original), which loads the image.
StageAsarray(c, env) ==
    IF env.fail = "asarray" THEN Raise(c, "asarray", "OSError")
    ELSE Ran(c, "asarray")

\* Line 104: assert isinstance(image_size, int) or (len(image_size) == 2);
\* the exception it raises ("none": it passes).
CheckImageSize(image_size) ==
    CASE image_size.kind = "int"   -> "none"
      [] image_size.kind = "float" -> "TypeError"
      [] OTHER -> IF Len(image_size.v) = 2 THEN "none" ELSE "AssertionError"

\* Lines 99-114: the target size and the one-time warning flag.
StageSize(c, image_size) ==
    IF c.exc # "none" THEN c
    ELSE IF image_size.kind = "None"
    THEN [Ran(c, "size") EXCEPT !.target_size = <<IMAGE_SIZE, IMAGE_SIZE>>,
                                !.flag = FALSE]
    ELSE IF CheckImageSize(image_size) # "none"
    THEN Raise(c, "size", CheckImageSize(image_size))
    ELSE [Ran(c, "size") EXCEPT
             !.warned = ~c.flag,
             !.flag = TRUE,
             !.target_size = IF image_size.kind = "int"
                             THEN <<image_size.v[1], image_size.v[1]>>
                             ELSE image_size.v]

\* Lines 118-119: the letterboxed image.
StageLetterbox(c, shape0, env) ==
    IF c.exc # "none" THEN c
    ELSE IF env.fail = "letterbox" THEN Raise(c, "letterbox", "ValueError")
    ELSE [Ran(c, "letterbox") EXCEPT !.img_shape = letterbox(shape0, c.target_size, STRIDE)]

\* Lines 121-131: the tensor is sent to self.device and the model is run on it.
StageForward(c, dev, env) ==
    IF c.exc # "none" THEN c
    ELSE IF env.fail = "forward"
    THEN [Raise(c, "forward", "RuntimeError") EXCEPT !.img_device = dev]
    ELSE [Ran(c, "forward") EXCEPT !.img_device = dev, !.pred = env.raw]

\* Lines 134-140: overlap suppression, on a CPU copy of the prediction when
\* the device is 'mps'.
NmsDevice(dev) == IF dev = "mps" THEN "cpu" ELSE dev

\* StageNms with non_max_suppression's default conf_thres = 0.25 in place of
\* the caller's threshold.
StageNmsDefaultThreshold(c, dev, detection_threshold, env) ==
    IF c.exc # "none" THEN c
    ELSE IF env.fail = "nms"
    THEN [Raise(c, "nms", "RuntimeError") EXCEPT !.nms_device = NmsDevice(dev)]
    ELSE [Ran(c, "nms") EXCEPT
             !.nms_device = NmsDevice(dev),
             !.det = non_max_suppression(c.pred, 25000)]

StageNms(c, dev, detection_threshold, env) ==
    IF c.exc # "none" THEN c
    ELSE IF env.fail = "nms"
    THEN [Raise(c, "nms", "RuntimeError") EXCEPT !.nms_device = NmsDevice(dev)]
    ELSE [Ran(c, "nms") EXCEPT
             !.nms_device = NmsDevice(dev),
             !.det = non_max_suppression(c.pred, detection_threshold)]

\* NormalizationGain with the axes swapped: shape[[0, 1, 0, 1]].
NormalizationGainSwapped(shape0) == << shape0[1], shape0[2], shape0[1], shape0[2] >>

\* Line 143: gn = torch.tensor(img_original.shape)[[1, 0, 1, 0]], the shape
\* being (h, w, 3).
NormalizationGain(shape0) == << shape0[2], shape0[1], shape0[2], shape0[1] >>

\* The float errors of a candidate that is given none: no tie is broken and
\* every floor is that of the exact value.
NoFloat == [ties |-> <<"even", "even", "even", "even">>,
            rounding |-> <<"exact", "exact", "exact", "exact", "exact">>]

\* The place of a candidate in the raw prediction (confidences tell the
\* candidates apart), 0 if it has none.
RawIndex(raw, cand) ==
    IF \E j \in 1..Len(raw) : raw[j].conf = cand.conf
    THEN CHOOSE j \in 1..Len(raw) :
            /\ raw[j].conf = cand.conf
            /\ \A j2 \in 1..(j - 1) : raw[j2].conf # cand.conf
    ELSE 0

\* The float errors env gives a candidate.
FloatAt(env, cand) ==
    LET j == RawIndex(env.raw, cand)
    IN  IF j \in 1..Len(env.float) THEN env.float[j] ELSE NoFloat

\* Lines 149-152: the surviving boxes rescaled to the original image.
StageScale(c, shape0, env) ==
    IF c.exc # "none" \/ c.det = <<>> THEN c
    ELSE IF env.fail = "scale_coords" THEN Raise(c, "scale_coords", "RuntimeError")
    ELSE [Ran(c, "scale_coords") EXCEPT
             !.det = [i \in 1..Len(c.det) |->
                        [c.det[i] EXCEPT !.box = scale_coords(c.img_shape, @, shape0,
                                                              FloatAt(env, c.det[i]).ties)]]]

\* Lines 163-170: the category id of a native class index, 0 when the id is
\* not a valid class (KeyError).
CategoryOf(cls, native) ==
    IF native THEN cls
    ELSE IF cls + 1 \in {1, 2, 3} THEN cls + 1 ELSE 0

\* ClassError without the validation.
ClassErrorNever(cls, native) == FALSE

ClassError(cls, native) == ~native /\ cls + 1 \notin {1, 2, 3}

\* Line 157: which of xc, yc, w, h the float division by gn computes exactly
\* (xywh in half pixels, as xyxy2xywh returns it).
XywhExact(xywh, gn) == [i \in 1..4 |-> Dyadic(xywh[i], 2 * gn[i])]

\* Line 159: which of x_min, y_min, w, h are exact after the float
\* subtraction x_min = xc - w / 2.
ApiBoxExact(e) == << e[1] /\ e[3], e[2] /\ e[4], e[3], e[4] >>

\* Lines 157-161: the five numbers of a candidate's detection as they are
\* handed to truncate_float, the confidence first.  The confidence and the
\* sizes are off by one float32 rounding of themselves; x_min = xc - w / 2
\* is off by the roundings of xc and of w / 2, at most one rounding of
\* xc + w / 2.
RoundingSites(cand, shape0) ==
    LET gn == NormalizationGain(shape0)
        xywh == xyxy2xywh(cand.box)
        api_box == convert_yolo_to_xywh(xywh)
        exact == ApiBoxExact(XywhExact(xywh, gn))
    IN  << Site(cand.conf, ConfUnit, CONF_DIGITS, 1, 1, Dyadic(cand.conf, ConfUnit)) >>
        \o [i \in 1..4 |->
               Site(api_box[i], 2 * gn[i], COORD_DIGITS,
                    IF i <= 2 THEN xywh[i] + xywh[i + 2] \div 2 ELSE 1,
                    IF i <= 2 THEN api_box[i] ELSE 1,
                    exact[i])]

\* Lines 157-176: the detection record of one surviving candidate; r[1] is
\* the rounding of its confidence, r[2..5] of its four coordinates (a
\* rounding the floats cannot meet counts as "exact").
DetectionOf(cand, shape0, native, r) ==
    LET gn == NormalizationGain(shape0)
        api_box == convert_yolo_to_xywh(xyxy2xywh(cand.box))
        sites == RoundingSites(cand, shape0)
        a == [k \in 1..5 |-> IF Admits(sites[k], r[k]) THEN r[k] ELSE "exact"]
    IN  [category |-> ToString(CategoryOf(cand.cls, native)),
         conf |-> truncate_float(cand.conf, ConfUnit, CONF_DIGITS, a[1]),
         bbox |-> truncate_float_array(api_box, [i \in 1..4 |-> 2 * gn[i]],
                                       COORD_DIGITS, [i \in 1..4 |-> a[i + 1]])]

\* UpdateMaxConf with min for max.
UpdateMaxConfMin(max_conf, conf) == Min2(max_conf, conf)

\* Line 177: max_conf = max(max_conf, conf).
UpdateMaxConf(max_conf, conf) == Max2(max_conf, conf)

\* StageLoop over det in its own order, not reversed.
RECURSIVE StageLoopForward(_, _, _, _, _)
StageLoopForward(c, i, shape0, native, env) ==
    IF c.exc # "none" \/ i = 0 THEN c
    ELSE LET k == Len(c.det) + 1 - i
         IN  IF ClassError(c.det[k].cls, native) THEN Raise(c, "loop", "KeyError")
             ELSE LET d == DetectionOf(c.det[k], shape0, native, FloatAt(env, c.det[k]).rounding)
                  IN  StageLoopForward([Ran(c, "loop") EXCEPT
                                           !.detections = Append(@, d),
                                           !.max_conf = UpdateMaxConf(@, d.conf)],
                                       i - 1, shape0, native, env)

\* Lines 154-177: the loop over reversed(det), from candidate i down to 1.
RECURSIVE StageLoop(_, _, _, _, _)
StageLoop(c, i, shape0, native, env) ==
    IF c.exc # "none" \/ i = 0 THEN c
    ELSE IF ClassError(c.det[i].cls, native) THEN Raise(c, "loop", "KeyError")
    ELSE LET d == DetectionOf(c.det[i], shape0, native, FloatAt(env, c.det[i]).rounding)
         IN  StageLoop([Ran(c, "loop") EXCEPT
                           !.detections = Append(@, d),
                           !.max_conf = UpdateMaxConf(@, d.conf)],
                       i - 1, shape0, native, env)

\* Lines 94-140: the try block up to the overlap suppression.
TryBlockToNms(self, img, image_id, detection_threshold, image_size, env) ==
    LET c0 == Frame0(image_id, self.printed_image_size_warning)
        c1 == StageAsarray(c0, env)
        c2 == StageSize(c1, image_size)
        c3 == StageLetterbox(c2, img.shape, env)
        c4 == StageForward(c3, self.device, env)
    IN  StageNms(c4, self.device, detection_threshold, env)

\* Lines 94-185: the try block.
TryBlock(self, img, image_id, detection_threshold, image_size, env) ==
    LET c5 == TryBlockToNms(self, img, image_id, detection_threshold, image_size, env)
        c6 == StageScale(c5, img.shape, env)
    IN  StageLoop(c6, Len(c6.det), img.shape, self.use_model_native_classes, env)

\* The float errors one surviving candidate can meet: the fates of the ties
\* of its rescaled box and, if the loop gets to it, the roundings of its
\* detection.
CandFloats(cand, img1_shape, shape0, looped) ==
    UNION { { [ties |-> t, rounding |-> r] :
                r \in IF looped
                      THEN LET sites == RoundingSites(
                                   [cand EXCEPT !.box = scale_coords(img1_shape, @, shape0, t)],
                                   shape0)
                           IN  SeqProduct([k \in 1..5 |-> FeasibleRoundings(sites[k])])
                      ELSE { NoFloat.rounding } } :
            t \in SeqProduct([i \in 1..4 |-> TieOptions(img1_shape, cand.box, shape0, i)]) }

\* Nothing computed of a raw candidate by an earlier call on the same inputs.
Unknown == [scaled |-> FALSE, emitted |-> FALSE, float |-> NoFloat]

\* Float errors x of a raw candidate in a call after one on the same inputs
\* that computed done of it: the same inputs on the same build round as they
\* did, so x has the ties of the earlier call if that rescaled the
\* candidate's box too, and its roundings if both calls make a detection
\* from the candidate.
SameFloats(done, looped, x) ==
    /\ done.scaled => x.ties = done.float.ties
    /\ looped /\ done.emitted => x.rounding = done.float.rounding

\* The float errors a call can meet, one entry for each raw candidate (none
\* for a call that does not get to rescale a box, NoFloat for a candidate
\* that does not survive), after a call that computed done[j] of the j-th.
FloatsAfter(self, img, image_id, detection_threshold, image_size, env, done) ==
    LET c == TryBlockToNms(self, img, image_id, detection_threshold, image_size, env)
        n == Len(c.det)
        Survives(j) == /\ RawIndex(env.raw, env.raw[j]) = j
                       /\ \E i \in 1..n : c.det[i] = env.raw[j]
        At(j) == CHOOSE i \in 1..n : c.det[i] = env.raw[j]
        Looped(i) == \A i2 \in i..n : ~ClassError(c.det[i2].cls, self.use_model_native_classes)
    IN  IF c.exc # "none" \/ n = 0 \/ env.fail = "scale_coords" THEN { << >> }
        ELSE SeqProduct([j \in 1..Len(env.raw) |->
                            IF Survives(j)
                            THEN { x \in CandFloats(env.raw[j], c.img_shape, img.shape,
                                                    Looped(At(j))) :
                                     SameFloats(done[j], Looped(At(j)), x) }
                            ELSE { NoFloat }])

\* The float errors of a call on inputs not seen before.
Floats(self, img, image_id, detection_threshold, image_size, env) ==
    FloatsAfter(self, img, image_id, detection_threshold, image_size, env,
                [j \in 1..Len(env.raw) |-> Unknown])

\* Lines 187-191: the except block.  It marks the result, prints, and calls
\* traceback.print_exc(e) with the exception as the limit argument.
ExceptBlock(c) ==
    IF c.exc = "none" THEN [c |-> c, raised |-> "none"]
    ELSE [c |-> [c EXCEPT !.result = @ @@ [failure |-> FAILURE_INFER]],
          raised |-> traceback_print_exc(c.exc)]

\* Lines 193-196: the result is completed and returned, unless the except
\* block raised.
Finish(h, args) ==
    IF h.raised # "none"
    THEN [outcome |-> "raised", raised |-> h.raised, caught |-> h.c.exc,
          args |-> args, frame |-> h.c, returned |-> <<>>]
    ELSE [outcome |-> "returned", raised |-> "none", caught |-> h.c.exc,
          args |-> args, frame |-> h.c,
          returned |-> <<h.c.result @@ [max_detection_conf |-> h.c.max_conf,
                                        detections |-> h.c.detections]>>]

\* The whole call: what it leaves behind (the locals at exit, what it returned
\* or raised).
RunCall(self, img, image_id, detection_threshold, image_size, env) ==
    Finish(ExceptBlock(TryBlock(self, img, image_id, detection_threshold,
                                image_size, env)),
           [img |-> img, image_id |-> image_id,
            detection_threshold |-> detection_threshold,
            image_size |-> image_size, raw |-> env.raw, fail |-> env.fail,
            float |-> env.float])

Self == [device |-> device, model |-> model,
         printed_image_size_warning |-> printed_image_size_warning,
         use_model_native_classes |-> use_model_native_classes]

(***************************************************************************)
(* Inputs                                                                  *)
(***************************************************************************)
MaxCands == 2   \* candidates in one raw prediction
MaxCalls == 4   \* calls in a logged sequence

\* Original images, by shape <<h, w>> (70 x 140 letterboxes to 640 x 1280
\* without padding, 147 x 98 to 1280 x 896 with padding left and right,
\* 77 x 130 to 768 x 1280 with padding above and below).
Images == { [shape |-> <<70, 140>>], [shape |-> <<147, 98>>], [shape |-> <<77, 130>>] }
ImageIds == { "a.jpg" }

\* Detection thresholds 0.01, 0.5 and 1.0.
Thresholds == { 1000, 50000, ConfUnit }

\* image_size arguments: None, an int, an (h, w) pair, a 3-tuple, a float.
NoSize == [kind |-> "None", v |-> <<>>]
ImageSizes == { NoSize,
                [kind |-> "int", v |-> <<640>>],
                [kind |-> "seq", v |-> <<640, 1280>>],
                [kind |-> "seq", v |-> <<640, 640, 3>>],
                [kind |-> "float", v |-> <<>>] }

\* What the model can emit for an image: boxes in the padded frame (x1 <= x2,
\* y1 <= y2, possibly past the frame), confidences pairwise different, native
\* class indices of which 3 and 5 are not classes of the reference model.
Pool == { [box |-> <<100, 50, 700, 400>>,    conf |-> 90000,  cls |-> 0],
          [box |-> <<120, 60, 720, 420>>,    conf |-> 60000,  cls |-> 0],
          [box |-> <<120, 60, 720, 420>>,    conf |-> 55555,  cls |-> 1],
          [box |-> <<-20, 300, 1400, 1300>>, conf |-> 4321,   cls |-> 2],
          [box |-> <<0, 0, 1280, 640>>,      conf |-> ConfUnit, cls |-> 1],
          [box |-> <<100, 50, 700, 400>>,    conf |-> 70000,  cls |-> 3],
          [box |-> <<300, 200, 900, 1000>>,  conf |-> 2000,   cls |-> 5] }

RawPredictions == UNION { [1..n -> Pool] : n \in 0..MaxCands }

Stages == { "asarray", "letterbox", "forward", "nms", "scale_coords" }

\* What the call meets: the stage that fails (if any), what the model emits,
\* and the float errors, which each action draws from Floats.
Envs == [fail : Stages \cup {"none"}, raw : RawPredictions, float : { << >> }]

NoCall == [outcome |-> "none"]
NoPrior == [outcome |-> "none"]

(***************************************************************************)
(* The state machine                                                       *)
(***************************************************************************)
Init ==
    /\ \E force_cpu \in BOOLEAN, cuda \in BOOLEAN, mps \in BOOLEAN, native \in BOOLEAN :
         LET self == PTDetector_init("md_v5a.0.0.pt", force_cpu, cuda, mps, native)
         IN  /\ device = self.device
             /\ model = self.model
             /\ printed_image_size_warning = self.printed_image_size_warning
             /\ use_model_native_classes = self.use_model_native_classes
    /\ call = NoCall
    /\ log = <<>>
    /\ prior = NoPrior

\* generate_detections_one_image with the CPU fallback of the overlap
\* suppression assigned to self.device.
generate_detections_one_image_keeps_fallback(img, image_id, detection_threshold, image_size, env) ==
    /\ call' = RunCall(Self, img, image_id, detection_threshold, image_size, env)
    /\ printed_image_size_warning' = call'.frame.flag
    /\ device' = IF call'.frame.nms_device # "none" THEN call'.frame.nms_device ELSE device
    /\ UNCHANGED <<model, use_model_native_classes>>

\* One call of generate_detections_one_image on the detector: it leaves the
\* warning flag as the call set it and nothing else of the detector changed.
generate_detections_one_image(img, image_id, detection_threshold, image_size, env) ==
    /\ call' = RunCall(Self, img, image_id, detection_threshold, image_size, env)
    /\ printed_image_size_warning' = call'.frame.flag
    /\ UNCHANGED <<device, model, use_model_native_classes>>

\* The caller makes a call once it has taken the previous call's outcome.
Call ==
    /\ call.outcome = "none"
    /\ \E img \in Images, id \in ImageIds, thr \in Thresholds,
          size \in ImageSizes, env \in Envs :
         \E f \in Floats(Self, img, id, thr, size, env) :
            generate_detections_one_image(img, id, thr, size, [env EXCEPT !.float = f])
    /\ UNCHANGED <<log, prior>>

\* The caller takes the returned record, or handles the exception.
Collect ==
    /\ call.outcome # "none"
    /\ call' = NoCall
    /\ UNCHANGED <<device, model, use_model_native_classes,
                   printed_image_size_warning, log, prior>>

Next == Call \/ Collect

Spec == Init /\ [][Next]_vars

\* A logged sequence of calls on one image: what each call was given, the
\* stages it ran and whether it printed the size warning.
LogEntry(c) == [image_size |-> c.args.image_size, stages |-> c.frame.stages,
                warned |-> c.frame.warned]

SeqEnvs == [fail : {"none", "asarray"}, raw : { <<>> }, float : { << >> }]

CallLogged ==
    /\ Len(log) < MaxCalls
    /\ \E img \in { i \in Images : i.shape = <<70, 140>> },
          size \in ImageSizes, env \in SeqEnvs :
         generate_detections_one_image(img, "a.jpg", 50000, size, env)
    /\ log' = Append(log, LogEntry(call'))
    /\ UNCHANGED prior

NextSeq == CallLogged

SpecSeq == Init /\ [][NextSeq]_vars

\* The same detector, image and raw candidates at two thresholds t1 <= t2:
\* a first call that gets the raw candidates from the forward pass, then
\* reruns on the same inputs (a stage that fails on them fails in each).
PairEnvs == [fail : {"none", "nms", "scale_coords"}, raw : RawPredictions,
             float : { << >> }]

First ==
    /\ prior.outcome = "none"
    /\ \E img \in Images, thr \in Thresholds, env \in PairEnvs :
         \E f \in Floats(Self, img, "a.jpg", thr, NoSize, env) :
            generate_detections_one_image(img, "a.jpg", thr, NoSize,
                                          [env EXCEPT !.float = f])
    /\ prior' = call'
    /\ UNCHANGED log

\* Call c rescaled the boxes of its survivors: line 152 ran and did not raise
\* (the stage that raises is the last of the call's stages).
Rescaled(c) ==
    \E k \in DOMAIN c.frame.stages :
        /\ c.frame.stages[k] = "scale_coords"
        /\ k < Len(c.frame.stages) \/ c.frame.exc = "none"

\* The place among the survivors of call c of its j-th raw candidate (0: it
\* did not survive, or the call did not rescale its box at line 152).
ScaledAt(c, j) ==
    IF Rescaled(c)
          /\ RawIndex(c.args.raw, c.args.raw[j]) = j
          /\ \E i \in 1..Len(c.frame.det) : c.frame.det[i].conf = c.args.raw[j].conf
    THEN CHOOSE i \in 1..Len(c.frame.det) : c.frame.det[i].conf = c.args.raw[j].conf
    ELSE 0

\* Call c appended a detection for its j-th raw candidate (lines 157-176):
\* the loop runs from the last survivor down.
EmittedAt(c, j) ==
    /\ ScaledAt(c, j) > 0
    /\ ScaledAt(c, j) > Len(c.frame.det) - Len(c.frame.detections)

\* What call c computed of each of its raw candidates: the rescaled box, the
\* numbers of a detection, and under which float errors.
Computed(c) ==
    [j \in 1..Len(c.args.raw) |->
        [scaled |-> ScaledAt(c, j) > 0, emitted |-> EmittedAt(c, j),
         float |-> IF ScaledAt(c, j) > 0 THEN c.args.float[j] ELSE NoFloat]]

Again ==
    /\ prior.outcome # "none"
    /\ \E thr \in Thresholds :
         /\ thr >= prior.args.detection_threshold
         /\ \E f \in FloatsAfter(Self, prior.args.img, prior.args.image_id, thr,
                                 prior.args.image_size, prior.args, Computed(prior)) :
               generate_detections_one_image(prior.args.img, prior.args.image_id, thr,
                                             prior.args.image_size,
                                             [fail |-> prior.args.fail,
                                              raw |-> prior.args.raw, float |-> f])
    /\ UNCHANGED <<log, prior>>

NextPair == First \/ Again

SpecPair == Init /\ [][NextPair]_vars

\* A candidate with confidence 0.1 whose box starts at a tenth of the width
\* and of the height of a 100 x 200 image.
TenthCand == [box |-> <<128, 64, 700, 400>>, conf |-> 10000, cls |-> 2]

\* A candidate whose box starts one or two pixels below the top of a
\* 1080 x 1920 image (1.5 pixels, a tie) and ends 735 pixels below it.
TopCand == [box |-> <<796, 25, 1222, 514>>, conf |-> 30000, cls |-> 0]

\* A candidate whose box starts 8 pixels below the top of a 2448 x 3264
\* image: 8 / 2448 = 0.0032679738..., less than a float32 error of the box
\* below 0.003268.
LowCand == [box |-> <<200, 3, 900, 900>>, conf |-> 80000, cls |-> 1]

\* Images with sides of 100, 150 and 200 pixels, where most coordinates have
\* no digit past the fourth, and camera-size images (1080 x 1920 letterboxes
\* to 768 x 1280, padded above and below, 2448 x 3264 to 960 x 1280).
FloatImages == { [shape |-> <<100, 200>>], [shape |-> <<150, 100>>],
                 [shape |-> <<75, 130>>], [shape |-> <<1080, 1920>>],
                 [shape |-> <<2448, 3264>>] }

\* Calls on one candidate that succeed.
FloatEnvs == [fail : {"none"}, raw : { <<c>> : c \in Pool \cup {TenthCand, TopCand, LowCand} },
              float : { << >> }]

CallFloat ==
    /\ call.outcome = "none"
    /\ \E img \in FloatImages, env \in FloatEnvs :
         \E f \in Floats(Self, img, "a.jpg", 1000, NoSize, env) :
            generate_detections_one_image(img, "a.jpg", 1000, NoSize,
                                          [env EXCEPT !.float = f])
    /\ UNCHANGED <<log, prior>>

NextFloat == CallFloat \/ Collect

SpecFloat == Init /\ [][NextFloat]_vars

(***************************************************************************)
(* Properties                                                              *)
(***************************************************************************)
Range(f) == { f[i] : i \in DOMAIN f }
Ended == call.outcome # "none"
Returned == call.outcome = "returned"
Result == call.returned[1]
Marked == "failure" \in DOMAIN call.frame.result
Recognized(cls) == cls + 1 \in {1, 2, 3}

\* C1: every call returns a record: whichever stage raises, nothing reaches
\* the caller as an exception, and the record has 'file' equal to the image_id
\* passed in, 'max_detection_conf', 'detections' and, after a failure, the
\* failure marker.
C1_AlwaysReturnsRecord ==
    Ended =>
        /\ Returned
        /\ Result.file = call.args.image_id
        /\ {"max_detection_conf", "detections"} \subseteq DOMAIN Result
        /\ (call.caught # "none" => "failure" \in DOMAIN Result)

\* C2: a record marked as failed holds no detection and a maximum confidence of
\* 0.0 (stated of the record as the call builds it: the failure marker of
\* line 189 and the locals lines 193-194 store in it).
C2_FailureHasNoDetections ==
    Ended /\ Marked =>
        /\ call.frame.detections = <<>>
        /\ call.frame.max_conf = 0

\* C3: an image_size of invalid shape fails fast: the error of the size check
\* reaches the caller, the per-image failure boundary does not catch it (no
\* failure marker is set), and no letterboxing, forward pass or
\* post-processing is attempted.
C3_InvalidSizeFailsFast ==
    (/\ Ended
     /\ "size" \in Range(call.frame.stages)
     /\ call.args.image_size.kind # "None"
     /\ CheckImageSize(call.args.image_size) # "none")
    =>  /\ call.outcome = "raised"
        /\ call.raised = CheckImageSize(call.args.image_size)
        /\ call.caught = "none"
        /\ ~Marked
        /\ Range(call.frame.stages) \cap {"letterbox", "forward", "nms",
                                          "scale_coords", "loop"} = {}

\* The largest 'conf' of a list of detection records, 0 for the empty list.
MaxConfOf(dets) ==
    IF dets = <<>> THEN 0
    ELSE CHOOSE m \in { dets[i].conf : i \in 1..Len(dets) } :
            \A i \in 1..Len(dets) : dets[i].conf <= m

\* C4: at the end of every call, failed in the detection loop or not,
\* max_conf is the largest 'conf' of the detections appended so far (0.0 when
\* there is none), and a returned record holds that pair.
C4_MaxConfIsMaximum ==
    Ended =>
        /\ call.frame.max_conf = MaxConfOf(call.frame.detections)
        /\ Returned =>
              /\ Result.detections = call.frame.detections
              /\ Result.max_detection_conf = MaxConfOf(Result.detections)

C4_Witness ==
    /\ Returned
    /\ Len(Result.detections) >= 2
    /\ Result.detections[1].conf # Result.detections[2].conf
    /\ Result.max_detection_conf > 0

\* The number of detections a call leaves in 'detections'.
\* Every candidate that survived at the call's threshold has a recognized
\* class, or the detector passes native classes through.
NoClassError(c) ==
    use_model_native_classes
        \/ \A i \in 1..Len(c.frame.det) : Recognized(c.frame.det[i].cls)

\* The result returned at t2 has no more detections than the result returned
\* at t1: when it has detections, the call at t1 returned a result, and that
\* result has at least as many.
NoMoreThanPrior ==
    Returned =>
        /\ Len(Result.detections) > 0 => prior.outcome = "returned"
        /\ prior.outcome = "returned"
              => Len(Result.detections) <= Len(prior.returned[1].detections)

\* The result returned at a threshold of 1.0 has no detections.
NoneAtOne ==
    Returned /\ call.args.detection_threshold = ConfUnit
        => Len(Result.detections) = 0

\* C5 as claimed: for the same detector, image and raw candidates and
\* thresholds t1 <= t2, the result at t2 has no more detections than the
\* result at t1, whatever the candidates' classes; the result at a threshold
\* of 1.0 has none.
C5_MonotoneForAllCandidates ==
    prior.outcome # "none" => NoMoreThanPrior /\ NoneAtOne

\* C5 as amended: the same, for raw candidates of which those surviving at t1
\* all have recognized classes (or with native-class passthrough); the result
\* at a threshold of 1.0 has no detections for any raw candidates.
C5_MonotoneWithoutClassError ==
    prior.outcome # "none" =>
        /\ NoClassError(prior) => NoMoreThanPrior
        /\ NoneAtOne

C5_Witness ==
    /\ prior.outcome = "returned"
    /\ call.outcome = "returned"
    /\ call.args.detection_threshold > prior.args.detection_threshold
    /\ Len(Result.detections) >= 1
    /\ Len(Result.detections) < Len(prior.returned[1].detections)

\* Log entries: a call given a valid non-default size, a call given the
\* default size.
ValidSize(e) == e.image_size.kind # "None" /\ CheckImageSize(e.image_size) = "none"
DefaultSize(e) == e.image_size.kind = "None"

\* A call before the i-th emitted the warning and no call with the default
\* size came between it and the i-th.
WarnedSince(i) ==
    \E j \in 1..(i - 1) :
        /\ log[j].warned
        /\ \A k \in (j + 1)..(i - 1) : ~DefaultSize(log[k])

\* C6: a call given a valid image_size emits the warning exactly when no call
\* since construction, or since the latest call with image_size=None, has
\* emitted it.
C6_WarnsOncePerOverride ==
    \A i \in 1..Len(log) :
        ValidSize(log[i]) => (log[i].warned <=> ~WarnedSince(i))

\* The candidate the i-th detection appended by a call was made from.
SourceOf(c, i) == c.frame.det[Len(c.frame.det) + 1 - i]

\* C7: every detection's 'category' is the decimal string of the native class
\* index plus one, and one of "1", "2", "3", on a detector without
\* native-class passthrough; with passthrough it is the decimal string of the
\* native index itself.
C7_CategoryRemapped ==
    Ended =>
        \A i \in 1..Len(call.frame.detections) :
            LET d == call.frame.detections[i]
                cls == SourceOf(call, i).cls
            IN  IF use_model_native_classes
                THEN d.category = ToString(cls)
                ELSE d.category = ToString(cls + 1) /\ d.category \in {"1", "2", "3"}

C7_Witness ==
    /\ Returned
    /\ ~use_model_native_classes
    /\ Len(Result.detections) >= 2
    /\ Result.detections[1].category # Result.detections[2].category

\* floor(10^OutDigits * n / d) by long division in two steps of four digits.
ExactFloor(n, d) ==
    LET q1 == (n * 10^4) \div d
        r1 == (n * 10^4) % d
    IN  q1 * 10^4 + (r1 * 10^4) \div d

RECURSIVE NumDigits(_)
NumDigits(t) == IF t < 10 THEN 1 ELSE 1 + NumDigits(t \div 10)

\* 10^OutDigits * n / d is a whole number.
ExactWhole(n, d) == (((n * 10^4) % d) * 10^4) % d = 0

\* A bound, in OutUnit-ths, on the error of a float32 rounding of
\* mag_n / mag_d in [0, 1]: 2^-24 is less than 6 * 10^-8.
FloatErr(mag_n, mag_d) == (6 * mag_n) \div mag_d + 1

\* t (in OutUnit-ths) is a float within err of n/d truncated to p significant
\* digits: t has no digit past the p-th, t is not above the float and the
\* next number of p digits is (err = 0: t is n/d itself truncated).  Or n/d
\* is a power of ten, as is the next number of p - 1 digits: 0.0999 for a
\* float just below 0.1 whose logarithm is computed as that of 0.1.
Truncates(t, n, d, p, err) ==
    IF n = 0 THEN t = 0
    ELSE LET j == NumDigits(t) - p
             e == ExactFloor(n, d)
         IN  /\ t > 0
             /\ j >= 0
             /\ t % 10^j = 0
             /\ t - err <= e
             /\ \/ e < t + 10^j + err
                \/ /\ err > 0
                   /\ ExactWhole(n, d)
                   /\ e = t + 10^(j + 1)
                   /\ NumDigits(e) > NumDigits(t)

\* C8: every detection has 'conf' in [0, 1] and 'bbox' components in [0, 1]
\* with x_min + width <= 1 and y_min + height <= 1; 'conf' is the float of
\* the candidate's confidence truncated to CONF_DIGITS digits and 'bbox' is
\* the floats of (x1 / w, y1 / h, (x2 - x1) / w, (y2 - y1) / h) of the
\* rescaled box truncated to COORD_DIGITS digits, w and h being the original
\* image's width and height: never a number above the float, which is the
\* value itself where floats are exact and within a float32 rounding of it
\* elsewhere.
C8_ValuesInUnitRange ==
    Ended =>
        \A i \in 1..Len(call.frame.detections) :
            LET d == call.frame.detections[i]
                src == SourceOf(call, i)
                h == call.args.img.shape[1]
                w == call.args.img.shape[2]
                exact == ApiBoxExact(XywhExact(xyxy2xywh(src.box), <<w, h, w, h>>))
                Err(k, mag_n, mag_d) == IF exact[k] THEN 0 ELSE FloatErr(mag_n, mag_d)
            IN  /\ 0 <= d.conf /\ d.conf <= OutUnit
                /\ \A k \in 1..4 : 0 <= d.bbox[k] /\ d.bbox[k] <= OutUnit
                /\ d.bbox[1] + d.bbox[3] <= OutUnit
                /\ d.bbox[2] + d.bbox[4] <= OutUnit
                /\ Truncates(d.conf, src.conf, ConfUnit, CONF_DIGITS,
                             IF Dyadic(src.conf, ConfUnit) THEN 0
                             ELSE FloatErr(src.conf, ConfUnit))
                /\ Truncates(d.bbox[1], src.box[1], w, COORD_DIGITS, Err(1, src.box[3], w))
                /\ Truncates(d.bbox[2], src.box[2], h, COORD_DIGITS, Err(2, src.box[4], h))
                /\ Truncates(d.bbox[3], src.box[3] - src.box[1], w, COORD_DIGITS,
                             Err(3, src.box[3] - src.box[1], w))
                /\ Truncates(d.bbox[4], src.box[4] - src.box[2], h, COORD_DIGITS,
                             Err(4, src.box[4] - src.box[2], h))

\* A returned detection on a wide image whose y_min is two numbers of
\* COORD_DIGITS digits or more below y1 / h (a float below the truncation of
\* a value that has more digits), after a tie of the rescaled y1 that went
\* down, and whose confidence has three digits.
C8_Witness ==
    /\ Returned
    /\ call.args.img.shape[2] > call.args.img.shape[1]
    /\ \E i \in 1..Len(Result.detections) :
          LET d == Result.detections[i]
              src == SourceOf(call, i)
              h == call.args.img.shape[1]
              j == NumDigits(d.bbox[2]) - COORD_DIGITS
          IN  /\ d.bbox[2] > 0
              /\ d.bbox[2] + 10^j < ExactFloor(src.box[2], h)
              /\ FloatAt(call.args, src).ties[2] = "down"
              /\ d.bbox[1] + d.bbox[3] > (OutUnit \div 2)
              /\ d.conf % 10^6 # 0

\* The raw candidate a surviving candidate was made from (confidences are
\* pairwise different).
RawOf(c, s) == CHOOSE r \in Range(c.frame.pred) : r.conf = s.conf

\* C9: a call that ends without failure returns one record per candidate that
\* survived the confidence filter and the overlap suppression, the i-th
\* record made from the (n+1-i)-th survivor in the order the suppression
\* returned them (by descending confidence).
C9_ReverseOrder ==
    Returned /\ ~Marked =>
        LET det == call.frame.det
            n == Len(det)
            thr == call.args.detection_threshold
        IN  /\ Len(Result.detections) = n
            /\ \A i \in 1..n :
                  /\ \E r \in FeasibleRoundings(
                                Site(det[n + 1 - i].conf, ConfUnit, CONF_DIGITS, 1, 1,
                                     Dyadic(det[n + 1 - i].conf, ConfUnit))) :
                        Result.detections[i].conf
                           = truncate_float(det[n + 1 - i].conf, ConfUnit, CONF_DIGITS, r)
                  /\ Result.detections[i].category
                        = ToString(CategoryOf(det[n + 1 - i].cls, use_model_native_classes))
            /\ \A i \in 1..n :
                  /\ det[i].conf > thr
                  /\ \E r \in Range(call.frame.pred) : r.conf = det[i].conf /\ r.cls = det[i].cls
            /\ \A i \in 1..n, j \in 1..n : i < j => det[i].conf > det[j].conf
            /\ \A r \in Range(call.frame.pred) :
                  r.conf > thr =>
                     \/ \E i \in 1..n : det[i].conf = r.conf
                     \/ \E i \in 1..n :
                           /\ det[i].conf > r.conf
                           /\ det[i].cls = r.cls
                           /\ Overlaps(RawOf(call, det[i]).box, r.box)

C9_Witness ==
    /\ Returned /\ ~Marked
    /\ Len(Result.detections) = 2
    /\ Len(call.frame.pred) = 2
    /\ call.frame.pred[1].conf > call.frame.pred[2].conf
    /\ Result.detections[1].conf < Result.detections[2].conf

\* C10: no call changes the detector's device, model or
\* use_model_native_classes; every call that gets that far sends its input to
\* the device and runs the forward pass there, and runs the overlap
\* suppression on the device, or on the CPU when the device is 'mps'.
C10_DetectorUnchanged ==
    [][ /\ device' = device
        /\ model' = model
        /\ use_model_native_classes' = use_model_native_classes
        /\ (call'.outcome # "none" /\ "forward" \in Range(call'.frame.stages)
               => call'.frame.img_device = device')
        /\ (call'.outcome # "none" /\ "nms" \in Range(call'.frame.stages)
               => call'.frame.nms_device = IF device' = "mps" THEN "cpu" ELSE device')
        /\ model'.map_location = device' ]_vars

C10_Witness ==
    /\ device = "mps"
    /\ Len(log) >= 2
    /\ "nms" \in Range(log[1].stages)
    /\ Returned
    /\ call.frame.nms_device = "cpu"
    /\ call.frame.img_device = "mps"

=============================================================================
